---- MODULE Spec2Model ----
(***************************************************************************)
(* Model of my_agent/agent.py: the game-state store (one JSON file) and    *)
(* the six tools that load it, change it and save it back.                 *)
(*                                                                         *)
(* Python values are tagged records [t |-> <type>, <payload>], the payload *)
(* under a field named after the type; a dict is a function from its      *)
(* (string) keys to values, a list a sequence.  JSON documents are tagged  *)
(* with JSON's own type names, so json.dump and json.load are real         *)
(* conversions between two universes.                                     *)
(***************************************************************************)
EXTENDS Integers, Sequences, FiniteSets, TLC

VARIABLES file, last, running

vars == <<file, last, running>>

(***************************************************************************)
(* Bounds of the model.                                                    *)
(***************************************************************************)
\* largest HP and largest damage explored
MaxHP == 2

\* longest inventory explored
MaxInv == 2

(***************************************************************************)
(* Python values.                                                          *)
(***************************************************************************)
PyNone == [t |-> "NoneType"]

PyBool(x) == [t |-> "bool", b |-> x]

PyInt(x) == [t |-> "int", i |-> x]

PyStr(x) == [t |-> "str", s |-> x]

PyList(x) == [t |-> "list", l |-> x]

PyDict(x) == [t |-> "dict", d |-> x]

EmptyMap == [k \in {} |-> PyNone]

\* the record of a call: the tool, its argument (target and damage for apply_damage),
\* the string or value it returned, whether it saved, whether it raised.
\* Idle: no call whose result is still to be taken.
\* (Every record of the module lists its fields in this one order, the order in
\* which TLC keeps them.)
Idle ==
    [op |-> "idle", arg |-> PyNone, target |-> "", damage |-> 0, ret |-> "",
     value |-> PyNone, saved |-> FALSE, raised |-> FALSE]

\* `running` holds the calls that run side by side, each from its load to its save;
\* the agent's own loop runs one call at a time and leaves it empty
NoCallers == <<>>

IsDict(x) == x.t = "dict"

IsList(x) == x.t = "list"

\* d[k] = val on a dict (adds or overwrites the key)
DictSet(x, k, val) == PyDict((k :> val) @@ x.d)

\* del d[k]
DictDel(x, k) == PyDict([n \in (DOMAIN x.d) \ {k} |-> x.d[n]])

\* d.get(k, dflt)
DictGet(x, k, dflt) == IF k \in DOMAIN x.d THEN x.d[k] ELSE dflt

\* bool(x): the empty or zero value of every type is false
Truthy(x) ==
    CASE x.t = "NoneType" -> FALSE
      [] x.t = "bool" -> x.b
      [] x.t = "int" -> x.i # 0
      [] x.t = "str" -> x.s # ""
      [] x.t = "list" -> x.l # <<>>
      [] x.t = "dict" -> DOMAIN x.d # {}

\* the strings of the model that hold a given word as a proper substring
Superstrings(word) ==
    CASE word = "player" -> {"the player"}
      [] word = "hp" -> {"the player", "hp hp"}
      [] OTHER -> {}

\* `word in s` for two strings: substring test
StrContains(word, s) == word = "" \/ word = s \/ s \in Superstrings(word)

\* whether `x in c` is defined for a container c (otherwise TypeError)
InDefined(c) == c.t \in {"str", "list", "dict"}

\* `word in c` for a string word, where InDefined(c)
PyIn(word, c) ==
    CASE c.t = "dict" -> word \in DOMAIN c.d
      [] c.t = "list" -> \E n \in DOMAIN c.l : c.l[n] = PyStr(word)
      [] c.t = "str" -> StrContains(word, c.s)

\* the comparison of line 121 without .lower()
Lower_missing(x) == x

\* str.lower() on the target names of the model
Lower(x) ==
    CASE x = "Player" -> "player"
      [] x = "PLAYER" -> "player"
      [] x = "Goblin" -> "goblin"
      [] x = "Wolf" -> "wolf"
      [] x = "Orc" -> "orc"
      [] OTHER -> x

(***************************************************************************)
(* JSON documents and the json module's conversions.                       *)
(***************************************************************************)
RECURSIVE json_dump(_)
json_dump(x) ==
    CASE x.t = "NoneType" -> [j |-> "null"]
      [] x.t = "bool" -> [j |-> IF x.b THEN "true" ELSE "false"]
      [] x.t = "int" -> [j |-> "number", num |-> x.i]
      [] x.t = "str" -> [j |-> "string", chars |-> x.s]
      [] x.t = "list" -> [j |-> "array", elems |-> [k \in DOMAIN x.l |-> json_dump(x.l[k])]]
      [] x.t = "dict" -> [j |-> "object", members |-> [k \in DOMAIN x.d |-> json_dump(x.d[k])]]

RECURSIVE json_load(_)
json_load(d) ==
    CASE d.j = "null" -> PyNone
      [] d.j = "true" -> PyBool(TRUE)
      [] d.j = "false" -> PyBool(FALSE)
      [] d.j = "number" -> PyInt(d.num)
      [] d.j = "string" -> PyStr(d.chars)
      [] d.j = "array" -> PyList([k \in DOMAIN d.elems |-> json_load(d.elems[k])])
      [] d.j = "object" -> PyDict([k \in DOMAIN d.members |-> json_load(d.members[k])])

\* the backing file: absent, text that is not JSON, or a JSON document
Absent == [kind |-> "absent"]

Invalid == [kind |-> "invalid"]

Json(d) == [kind |-> "json", doc |-> d]

(***************************************************************************)
(* The state store.                                                        *)
(***************************************************************************)
default_player ==
    PyDict([name |-> PyStr("Unknown"), class |-> PyStr("Unknown"),
            hp |-> PyInt(0), max_hp |-> PyInt(0), ac |-> PyInt(0),
            location |-> PyStr("Triboar Trail")])

default_combat ==
    PyDict([active |-> PyBool(FALSE), round |-> PyInt(0),
            initiative_order |-> PyList(<<>>), enemies |-> PyDict(EmptyMap)])

default_state ==
    PyDict([player |-> default_player, combat |-> default_combat,
            inventory |-> PyList(<<>>)])

\* a call's way out of a function: a returned value or an uncaught exception
Return(x) == [value |-> x, raised |-> FALSE]

Raise == [value |-> PyNone, raised |-> TRUE]

\* load_state without the `"player" not in state` test
load_state_no_key_test(f) ==
    IF f.kind = "absent" THEN Return(default_state)
    ELSE IF f.kind = "invalid" THEN Return(default_state)
    ELSE LET state == json_load(f.doc) IN
         IF ~Truthy(state) THEN Return(default_state) ELSE Return(state)

\* load_state with the key test inverted: `"player" in state`
load_state_inverted_test(f) ==
    IF f.kind = "absent" THEN Return(default_state)
    ELSE IF f.kind = "invalid" THEN Return(default_state)
    ELSE LET state == json_load(f.doc) IN
         IF ~Truthy(state) THEN Return(default_state)
         ELSE IF ~InDefined(state) THEN Raise
         ELSE IF PyIn("player", state) THEN Return(default_state)
         ELSE Return(state)

\* load_state without the except clause: a file that is not JSON raises
load_state_no_except(f) ==
    IF f.kind = "absent" THEN Return(default_state)
    ELSE IF f.kind = "invalid" THEN Raise
    ELSE LET state == json_load(f.doc) IN
         IF ~Truthy(state) THEN Return(default_state)
         ELSE IF ~InDefined(state) THEN Raise
         ELSE IF ~PyIn("player", state) THEN Return(default_state)
         ELSE Return(state)

load_state(f) ==
    IF f.kind = "absent" THEN Return(default_state)
    ELSE IF f.kind = "invalid" THEN Return(default_state)
    ELSE LET state == json_load(f.doc) IN
         IF ~Truthy(state) THEN Return(default_state)
         ELSE IF ~InDefined(state) THEN Raise
         ELSE IF ~PyIn("player", state) THEN Return(default_state)
         ELSE Return(state)

save_state(state) == Json(json_dump(state))

\* module import: the file is created with the default record when absent
Bootstrap(f) == IF f.kind = "absent" THEN save_state(default_state) ELSE f

(***************************************************************************)
(* The tools.  Each is a function of the file's content and the call's     *)
(* arguments to an outcome: the file afterwards, what the call returned,   *)
(* whether it saved, whether it ended in an uncaught exception.            *)
(***************************************************************************)
\* a returned string: its template and the numbers formatted into it
Msg(kind, old_hp, new_hp) == [kind |-> kind, old_hp |-> old_hp, new_hp |-> new_hp]

NoMsg == Msg("", 0, 0)

\* load -> mutate -> save -> return msg
Saved(state, msg) ==
    [file |-> save_state(state), ret |-> msg, value |-> PyNone,
     saved |-> TRUE, raised |-> FALSE]

\* an early return placed after the save instead of before it
Unsaved_after_save(f, msg) ==
    [file |-> save_state(load_state(f).value), ret |-> msg, value |-> PyNone,
     saved |-> TRUE, raised |-> FALSE]

\* return msg before any save
Unsaved(f, msg) ==
    [file |-> f, ret |-> msg, value |-> PyNone, saved |-> FALSE, raised |-> FALSE]

\* an uncaught exception before any save
Raised(f) ==
    [file |-> f, ret |-> NoMsg, value |-> PyNone, saved |-> FALSE, raised |-> TRUE]

\* the operand of `old_hp - damage`: int, or bool as 0/1; anything else is a TypeError
IsNumber(x) == x.t \in {"int", "bool"}

NumberOf(x) == IF x.t = "bool" THEN (IF x.b THEN 1 ELSE 0) ELSE x.i

\* initialize_player that assigns a new player record instead of updating the old one
initialize_player_replaces(f, name, race, char_class, background, max_hp, ac) ==
    LET state == load_state(f).value
        update == [name |-> PyStr(name), class |-> PyStr(char_class),
                   hp |-> PyInt(max_hp), max_hp |-> PyInt(max_hp),
                   ac |-> PyInt(ac), race |-> PyStr(race),
                   background |-> PyStr(background)]
    IN  IF load_state(f).raised \/ ~IsDict(state) THEN Raised(f)
        ELSE Saved(DictSet(state, "player", PyDict(update)), Msg("initialized", 0, 0))

initialize_player(f, name, race, char_class, background, max_hp, ac) ==
    LET l == load_state(f)
        state == l.value
    IN  IF l.raised THEN Raised(f)
        ELSE IF ~(IsDict(state) /\ "player" \in DOMAIN state.d) THEN Raised(f)
        ELSE IF ~IsDict(state.d["player"]) THEN Raised(f)
        ELSE LET update == [name |-> PyStr(name), class |-> PyStr(char_class),
                            hp |-> PyInt(max_hp), max_hp |-> PyInt(max_hp),
                            ac |-> PyInt(ac), race |-> PyStr(race),
                            background |-> PyStr(background)]
                 player == PyDict(update @@ state.d["player"].d)
             IN  Saved(DictSet(state, "player", player), Msg("initialized", 0, 0))

\* add_to_inventory that skips the items the inventory already holds
add_to_inventory_dedup(f, items) ==
    LET state == load_state(f).value
        current_inv == DictGet(state, "inventory", PyList(<<>>))
        held(x) == \E n \in DOMAIN current_inv.l : current_inv.l[n] = x
    IN  Saved(DictSet(state, "inventory",
                      PyList(current_inv.l \o SelectSeq(items.l, LAMBDA x : ~held(x)))),
              Msg("added", 0, 0))

add_to_inventory(f, items) ==
    LET l == load_state(f)
        state == l.value
    IN  IF l.raised THEN Raised(f)
        ELSE IF ~IsDict(state) THEN Raised(f)
        ELSE LET current_inv == DictGet(state, "inventory", PyList(<<>>)) IN
             IF ~IsList(current_inv) THEN Raised(f)
             ELSE Saved(DictSet(state, "inventory",
                                PyList(current_inv.l \o items.l)),
                        Msg("added", 0, 0))

\* read_gamestate that writes the default record when it finds no file
read_gamestate_creates_file(f) ==
    LET l == load_state(f)
    IN  IF l.raised THEN Raised(f)
        ELSE IF f.kind = "absent"
             THEN [file |-> save_state(l.value), ret |-> NoMsg, value |-> l.value,
                   saved |-> TRUE, raised |-> FALSE]
        ELSE [file |-> f, ret |-> NoMsg, value |-> l.value,
              saved |-> FALSE, raised |-> FALSE]

read_gamestate(f) ==
    LET l == load_state(f)
    IN  IF l.raised THEN Raised(f)
        ELSE [file |-> f, ret |-> NoMsg, value |-> l.value,
              saved |-> FALSE, raised |-> FALSE]

\* state['combat'][key] = val
SetCombat(state, key, val) ==
    DictSet(state, "combat", DictSet(state.d["combat"], key, val))

\* whether state['combat'][key] = val is defined
CombatAssignable(state) ==
    /\ IsDict(state)
    /\ "combat" \in DOMAIN state.d
    /\ IsDict(state.d["combat"])

\* start_combat that adds the given enemies to the ones already there
start_combat_merges(f, enemies) ==
    LET l == load_state(f)
        state == l.value
    IN  IF l.raised THEN Raised(f)
        ELSE IF ~CombatAssignable(state) THEN Raised(f)
        ELSE LET old == DictGet(state.d["combat"], "enemies", PyDict(EmptyMap)) IN
             Saved(SetCombat(SetCombat(state, "active", PyBool(TRUE)),
                             "enemies", PyDict(enemies.d @@ old.d)),
                   Msg("combat started", 0, 0))

start_combat(f, enemies) ==
    LET l == load_state(f)
        state == l.value
    IN  IF l.raised THEN Raised(f)
        ELSE IF ~CombatAssignable(state) THEN Raised(f)
        ELSE Saved(SetCombat(SetCombat(state, "active", PyBool(TRUE)),
                             "enemies", enemies),
                   Msg("combat started", 0, 0))

\* end_combat without line 155: the enemies are left in place
end_combat_keeps_enemies(f) ==
    LET l == load_state(f)
        state == l.value
    IN  IF l.raised THEN Raised(f)
        ELSE IF ~CombatAssignable(state) THEN Raised(f)
        ELSE Saved(SetCombat(state, "active", PyBool(FALSE)),
                   Msg("combat ended manually", 0, 0))

end_combat(f) ==
    LET l == load_state(f)
        state == l.value
    IN  IF l.raised THEN Raised(f)
        ELSE IF ~CombatAssignable(state) THEN Raised(f)
        ELSE Saved(SetCombat(SetCombat(state, "active", PyBool(FALSE)),
                             "enemies", PyDict(EmptyMap)),
                   Msg("combat ended manually", 0, 0))

\* damage_player without the test of line 123: a record without hp is a KeyError
damage_player_no_hp_test(f, state, damage) ==
    LET player == state.d["player"] IN
    IF ~IsDict(player) THEN Raised(f)
    ELSE IF "hp" \notin DOMAIN player.d THEN Raised(f)
    ELSE IF ~IsNumber(player.d["hp"]) THEN Raised(f)
    ELSE LET old_hp == NumberOf(player.d["hp"])
             new_hp == old_hp - damage
         IN  Saved(DictSet(state, "player", DictSet(player, "hp", PyInt(new_hp))),
                   Msg("player took damage", old_hp, new_hp))

\* damage_player with the new hp floored at zero: max(0, old_hp - damage)
damage_player_floors_at_zero(f, state, damage) ==
    LET player == state.d["player"] IN
    IF ~InDefined(player) THEN Raised(f)
    ELSE IF ~PyIn("hp", player) THEN Unsaved(f, Msg("error: player hp not initialized", 0, 0))
    ELSE IF ~IsDict(player) THEN Raised(f)
    ELSE IF ~IsNumber(player.d["hp"]) THEN Raised(f)
    ELSE LET old_hp == NumberOf(player.d["hp"])
             new_hp == IF old_hp - damage < 0 THEN 0 ELSE old_hp - damage
         IN  Saved(DictSet(state, "player", DictSet(player, "hp", PyInt(new_hp))),
                   Msg("player took damage", old_hp, new_hp))

\* branch 1 of apply_damage: the target is the player
damage_player(f, state, damage) ==
    LET player == state.d["player"] IN
    IF ~InDefined(player) THEN Raised(f)
    ELSE IF ~PyIn("hp", player) THEN Unsaved(f, Msg("error: player hp not initialized", 0, 0))
    ELSE IF ~IsDict(player) THEN Raised(f)
    ELSE IF ~IsNumber(player.d["hp"]) THEN Raised(f)
    ELSE LET old_hp == NumberOf(player.d["hp"])
             new_hp == old_hp - damage
         IN  Saved(DictSet(state, "player", DictSet(player, "hp", PyInt(new_hp))),
                   Msg("player took damage", old_hp, new_hp))

\* damage_enemy whose death branch empties combat['enemies'] instead of deleting one key
damage_enemy_clears_all(f, state, combat, target, damage) ==
    LET enemies == combat.d["enemies"]
        old_hp == NumberOf(enemies.d[target])
        new_hp == old_hp - damage
    IN  IF new_hp <= 0
        THEN Saved(DictSet(state, "combat",
                           DictSet(DictSet(combat, "enemies", PyDict(EmptyMap)),
                                   "active", PyBool(FALSE))),
                   Msg("died, combat has ended", old_hp, new_hp))
        ELSE Saved(DictSet(state, "combat",
                           DictSet(combat, "enemies", DictSet(enemies, target, PyInt(new_hp)))),
                   Msg("took damage", old_hp, new_hp))

\* damage_enemy without lines 139-141: the last death does not end the combat
damage_enemy_never_ends(f, state, combat, target, damage) ==
    LET enemies == combat.d["enemies"]
        old_hp == NumberOf(enemies.d[target])
        new_hp == old_hp - damage
    IN  IF new_hp <= 0
        THEN Saved(DictSet(state, "combat", DictSet(combat, "enemies", DictDel(enemies, target))),
                   Msg("died", old_hp, new_hp))
        ELSE Saved(DictSet(state, "combat",
                           DictSet(combat, "enemies", DictSet(enemies, target, PyInt(new_hp)))),
                   Msg("took damage", old_hp, new_hp))

\* damage_enemy with `new_hp < 0` for the death test
damage_enemy_dies_below_zero(f, state, combat, target, damage) ==
    LET enemies == combat.d["enemies"]
        old_hp == NumberOf(enemies.d[target])
        new_hp == old_hp - damage
    IN  IF new_hp < 0
        THEN LET left == DictDel(enemies, target)
                 dead == DictSet(combat, "enemies", left)
             IN  IF ~Truthy(left)
                 THEN Saved(DictSet(state, "combat", DictSet(dead, "active", PyBool(FALSE))),
                            Msg("died, combat has ended", old_hp, new_hp))
                 ELSE Saved(DictSet(state, "combat", dead), Msg("died", old_hp, new_hp))
        ELSE Saved(DictSet(state, "combat",
                           DictSet(combat, "enemies", DictSet(enemies, target, PyInt(new_hp)))),
                   Msg("took damage", old_hp, new_hp))

\* damage_enemy without the test of line 139: any death ends the combat
damage_enemy_ends_at_any_death(f, state, combat, target, damage) ==
    LET enemies == combat.d["enemies"]
        old_hp == NumberOf(enemies.d[target])
        new_hp == old_hp - damage
    IN  IF new_hp <= 0
        THEN Saved(DictSet(state, "combat",
                           DictSet(DictSet(combat, "enemies", DictDel(enemies, target)),
                                   "active", PyBool(FALSE))),
                   Msg("died, combat has ended", old_hp, new_hp))
        ELSE Saved(DictSet(state, "combat",
                           DictSet(combat, "enemies", DictSet(enemies, target, PyInt(new_hp)))),
                   Msg("took damage", old_hp, new_hp))

\* branch 2 of apply_damage: the target is a key of the active combat's enemies
damage_enemy(f, state, combat, target, damage) ==
    LET enemies == combat.d["enemies"] IN
    IF ~IsDict(enemies) THEN Raised(f)
    ELSE IF ~IsNumber(enemies.d[target]) THEN Raised(f)
    ELSE LET old_hp == NumberOf(enemies.d[target])
             new_hp == old_hp - damage
         IN  IF new_hp <= 0
             THEN LET left == DictDel(enemies, target)
                      dead == DictSet(combat, "enemies", left)
                  IN  IF ~Truthy(left)
                      THEN Saved(DictSet(state, "combat",
                                         DictSet(dead, "active", PyBool(FALSE))),
                                 Msg("died, combat has ended", old_hp, new_hp))
                      ELSE Saved(DictSet(state, "combat", dead),
                                 Msg("died", old_hp, new_hp))
             ELSE Saved(DictSet(state, "combat",
                                DictSet(combat, "enemies",
                                        DictSet(enemies, target, PyInt(new_hp)))),
                        Msg("took damage", old_hp, new_hp))

\* apply_damage with the two branches in the other order: enemies first, player second
apply_damage_enemy_first(f, target, damage) ==
    LET l == load_state(f)
        state == l.value
    IN  IF l.raised THEN Raised(f)
        ELSE IF ~IsDict(state) THEN Raised(f)
        ELSE LET combat == DictGet(state, "combat", PyDict(EmptyMap))
                 enemies == DictGet(combat, "enemies", PyDict(EmptyMap))
             IN  IF Truthy(DictGet(combat, "active", PyNone)) /\ PyIn(target, enemies)
                 THEN damage_enemy(f, state, combat, target, damage)
                 ELSE IF Lower(target) = "player" THEN damage_player(f, state, damage)
                 ELSE Unsaved(f, Msg("error: target not found", 0, 0))

apply_damage(f, target, damage) ==
    LET l == load_state(f)
        state == l.value
    IN  IF l.raised THEN Raised(f)
        ELSE IF ~IsDict(state) THEN Raised(f)
        ELSE LET combat == DictGet(state, "combat", PyDict(EmptyMap)) IN
             IF Lower(target) = "player" THEN damage_player(f, state, damage)
             ELSE IF ~IsDict(combat) THEN Raised(f)
             ELSE IF ~Truthy(DictGet(combat, "active", PyNone))
                  THEN Unsaved(f, Msg("error: target not found", 0, 0))
             ELSE LET enemies == DictGet(combat, "enemies", PyDict(EmptyMap)) IN
                  IF ~InDefined(enemies) THEN Raised(f)
                  ELSE IF ~PyIn(target, enemies)
                       THEN Unsaved(f, Msg("error: target not found", 0, 0))
                  ELSE damage_enemy(f, state, combat, target, damage)

(***************************************************************************)
(* Readings of the persisted record, for stating properties.               *)
(***************************************************************************)
Loaded == load_state(file).value

Combat == Loaded.d["combat"]

Active == Combat.d["active"].b

Enemies == Combat.d["enemies"].d

Player == Loaded.d["player"]

Inventory == Loaded.d["inventory"].l

(***************************************************************************)
(* The agent's loop: it calls one tool, takes the result, and only then    *)
(* calls the next (the tools are synchronous and run one at a time).       *)
(* `last` holds the call whose result the agent has not taken yet.         *)
(***************************************************************************)
EnemyNames == {"Goblin", "Wolf", "Player"}

Targets == EnemyNames \cup {"player", "Orc"}

StartHPs == {0, MaxHP}

Damages == {0 - 1, 0, 1, MaxHP}

Items == {"Shortbow", "Rope"}

ItemLists == UNION {[1..n -> Items] : n \in 0..2}

Encounters == UNION {[S -> StartHPs] : S \in SUBSET EnemyNames}

\* a call of tool op: the file changes as the tool leaves it; the call's argument
\* (target and damage for apply_damage) and its outcome are on record
Call(op, arg, target, damage, out) ==
    /\ last = Idle
    /\ file' = out.file
    /\ last' = [op |-> op, arg |-> arg, target |-> target, damage |-> damage,
                ret |-> out.ret.kind, value |-> out.value,
                saved |-> out.saved, raised |-> out.raised]
    /\ UNCHANGED running

PyStrings(q) == PyList([i \in DOMAIN q |-> PyStr(q[i])])

PyInts(m) == PyDict([n \in DOMAIN m |-> PyInt(m[n])])

\* the keyword arguments of a call of initialize_player
Sheet(name, race, char_class, background, max_hp, ac) ==
    PyDict([name |-> PyStr(name), max_hp |-> PyInt(max_hp), ac |-> PyInt(ac),
            race |-> PyStr(race), char_class |-> PyStr(char_class),
            background |-> PyStr(background)])

InitializePlayerWith(sheet) ==
    Call("initialize_player", sheet, "", 0,
         initialize_player(file, sheet.d["name"].s, sheet.d["race"].s,
                           sheet.d["char_class"].s, sheet.d["background"].s,
                           sheet.d["max_hp"].i, sheet.d["ac"].i))

InitializePlayer ==
    InitializePlayerWith(Sheet("Aria", "Elf", "Fighter", "Sage", MaxHP, 16))

AddToInventory ==
    \E items \in ItemLists :
        /\ Len(Inventory) + Len(items) <= MaxInv
        /\ Call("add_to_inventory", PyStrings(items), "", 0,
                add_to_inventory(file, PyStrings(items)))

ReadGamestate == Call("read_gamestate", PyNone, "", 0, read_gamestate(file))

StartCombat ==
    \E enemies \in Encounters :
        Call("start_combat", PyInts(enemies), "", 0, start_combat(file, PyInts(enemies)))

\* the HP the call would write stays within the explored range
WithinHP(target, damage) ==
    IF Lower(target) = "player"
    THEN Player.d["hp"].i - damage \in (0 - 1)..MaxHP
    ELSE target \in DOMAIN Enemies => Enemies[target].i - damage <= MaxHP

ApplyDamage ==
    \E target \in Targets, damage \in Damages :
        /\ WithinHP(target, damage)
        /\ Call("apply_damage", PyNone, target, damage, apply_damage(file, target, damage))

EndCombat == Call("end_combat", PyNone, "", 0, end_combat(file))

\* the agent takes the result of the call
TakeResult ==
    /\ last # Idle
    /\ last' = Idle
    /\ UNCHANGED <<file, running>>

Init ==
    /\ file = Bootstrap(Absent)
    /\ last = Idle
    /\ running = NoCallers

Next ==
    \/ InitializePlayer
    \/ AddToInventory
    \/ ReadGamestate
    \/ StartCombat
    \/ ApplyDamage
    \/ EndCombat
    \/ TakeResult

Spec == Init /\ [][Next]_vars

(***************************************************************************)
(* The store on its own: the file holds anything at all, and the two       *)
(* store functions are applied to it.                                      *)
(***************************************************************************)
\* a player record that was never given an hp
player_without_hp == PyDict([name |-> PyStr("Unknown"), class |-> PyStr("Unknown")])

an_active_combat ==
    PyDict([active |-> PyBool(TRUE), round |-> PyInt(0),
            initiative_order |-> PyList(<<>>), enemies |-> PyInts([Goblin |-> MaxHP])])

\* the values a file may hold under each top-level key
KeyOptions(k) ==
    CASE k = "player" -> {default_player, player_without_hp, PyDict(EmptyMap)}
      [] k = "combat" -> {default_combat, an_active_combat}
      [] k = "inventory" -> {PyList(<<>>), PyStrings(<<"Rope">>)}
      [] k = "foo" -> {PyInt(1)}

TopKeys == {"player", "combat", "inventory", "foo"}

\* objects with or without each top-level key
ObjectDocuments ==
    UNION {{PyDict(m) : m \in {x \in [K -> UNION {KeyOptions(k) : k \in K}] :
                                  \A k \in K : x[k] \in KeyOptions(k)}} :
           K \in SUBSET TopKeys}

\* values of every other JSON type, empty and not
OtherDocuments ==
    {PyNone, PyBool(TRUE), PyBool(FALSE), PyInt(0), PyInt(5),
     PyStr(""), PyStr("player"), PyStr("the player"), PyStr("Goblin"),
     PyList(<<>>), PyList(<<PyStr("player")>>), PyList(<<PyInt(0)>>)}

FileContents ==
    {Absent, Invalid} \cup {Json(json_dump(x)) : x \in ObjectDocuments \cup OtherDocuments}

an_initialized_player(hp) ==
    PyDict([name |-> PyStr("Aria"), class |-> PyStr("Fighter"), hp |-> PyInt(hp),
            max_hp |-> PyInt(MaxHP), ac |-> PyInt(16), location |-> PyStr("Triboar Trail"),
            race |-> PyStr("Elf"), background |-> PyStr("Sage")])

\* records of the shape of section 3: a player sheet, a combat record, an inventory
WellFormedStates ==
    {PyDict([player |-> p, combat |-> c, inventory |-> PyStrings(i)]) :
        p \in {default_player, an_initialized_player(0 - 1), an_initialized_player(MaxHP)},
        c \in {default_combat} \cup {DictSet(an_active_combat, "enemies", PyInts(e)) : e \in Encounters},
        i \in ItemLists}

LoadState ==
    LET l == load_state(file) IN
    Call("load_state", PyNone, "", 0,
         [file |-> file, ret |-> NoMsg, value |-> l.value, saved |-> FALSE,
          raised |-> l.raised])

SaveState ==
    \E s \in WellFormedStates :
        Call("save_state", s, "", 0,
             [file |-> save_state(s), ret |-> NoMsg, value |-> PyNone, saved |-> TRUE,
              raised |-> FALSE])

InitStore ==
    /\ file \in FileContents
    /\ last = Idle
    /\ running = NoCallers

NextStore ==
    \/ LoadState
    \/ SaveState
    \/ TakeResult

StoreSpec == InitStore /\ [][NextStore]_vars

(***************************************************************************)
(* Properties of the encounter state.                                      *)
(***************************************************************************)
\* C1: in every state the tools can reach from the default record, combat.active
\* being false implies that combat.enemies is empty.
C1_InactiveImpliesNoEnemies == ~Active => DOMAIN Enemies = {}

\* C1's case: combat was running and has stopped, here by the death of the last enemy
C1_Witness ==
    /\ last.op = "apply_damage"
    /\ last.ret = "died, combat has ended"
    /\ ~Active

\* C2 as claimed: in every reachable state no key of combat.enemies maps to an HP of
\* zero or below.
C2_NoEntryAtZeroOrBelow == \A n \in DOMAIN Enemies : Enemies[n].i > 0

\* the call on record went through the enemy branch of apply_damage
EnemyBranch(call) ==
    /\ call.op = "apply_damage"
    /\ call.ret \in {"took damage", "died", "died, combat has ended"}

\* C2 as amended: an entry at zero HP or below is there only because start_combat was
\* given that HP for it (a step either is that start_combat or finds the entry as it
\* leaves it), and apply_damage never leaves the enemy it damaged at zero HP or below.
C2_OnlyStartCombatPutsEntryAtZeroOrBelow ==
    [][/\ \A n \in DOMAIN Enemies' :
              Enemies'[n].i <= 0 =>
                  (\/ last'.op = "start_combat" /\ last'.arg.d[n].i = Enemies'[n].i
                   \/ n \in DOMAIN Enemies /\ Enemies[n] = Enemies'[n])
       /\ EnemyBranch(last') =>
              (\/ last'.target \notin DOMAIN Enemies'
               \/ Enemies'[last'.target].i > 0)]_vars

\* C2's case: apply_damage has damaged an enemy, which lives on, beside an entry
\* that start_combat put at zero HP
C2_Witness ==
    /\ last.op = "apply_damage"
    /\ last.ret = "took damage"
    /\ last.target \in DOMAIN Enemies
    /\ \E n \in DOMAIN Enemies : Enemies[n].i <= 0

(***************************************************************************)
(* Properties of the tools, step by step.                                  *)
(***************************************************************************)
IsPrefix(p, q) == Len(p) <= Len(q) /\ SubSeq(q, 1, Len(p)) = p

\* C6: across every step the old inventory is a prefix of the new one;
\* add_to_inventory(items) makes it the old inventory followed by items, in their
\* order and with duplicates kept; no other step changes it.
C6_InventoryAppendOnly ==
    [][/\ IsPrefix(Inventory, Inventory')
       /\ last'.op = "add_to_inventory" => (Inventory' = Inventory \o last'.arg.l)
       /\ last'.op # "add_to_inventory" => (Inventory' = Inventory)]_vars

\* C6's case: a second add_to_inventory has appended an item the inventory already held
C6_Witness ==
    /\ last.op = "add_to_inventory"
    /\ last.arg = PyStrings(<<"Rope">>)
    /\ Inventory = PyStrings(<<"Rope", "Rope">>).l

\* what C7 says of a call apply_damage(target, damage) that finds target among the
\* enemies: the key goes if old_hp - damage <= 0 and maps to old_hp - damage
\* otherwise, and every other entry stays as it is
DamageDealt(target, damage) ==
    LET new_hp == Enemies[target].i - damage IN
    /\ new_hp <= 0 => target \notin DOMAIN Enemies'
    /\ new_hp > 0 => target \in DOMAIN Enemies' /\ Enemies'[target] = PyInt(new_hp)
    /\ DOMAIN Enemies' \subseteq DOMAIN Enemies
    /\ \A n \in DOMAIN Enemies \ {target} : n \in DOMAIN Enemies' /\ Enemies'[n] = Enemies[n]

\* C7 as claimed: apply_damage on any target that is a key of combat.enemies while
\* combat is active removes the key or lowers its HP as DamageDealt says.
C7_DamageOnAnyEnemyKey ==
    [][(last'.op = "apply_damage" /\ Active /\ last'.target \in DOMAIN Enemies)
           => DamageDealt(last'.target, last'.damage)]_vars

\* C7 as amended: the same, for a target that is not case-insensitively "player"
\* (a call with such a target damages the player and no enemy).
C7_DamageOnEnemy ==
    [][(/\ last'.op = "apply_damage"
        /\ Active
        /\ last'.target \in DOMAIN Enemies
        /\ Lower(last'.target) # "player")
           => DamageDealt(last'.target, last'.damage)]_vars

\* C7's case: an enemy has been killed and removed while another stays
C7_Witness ==
    /\ last.op = "apply_damage"
    /\ last.ret = "died"
    /\ last.target = "Goblin"
    /\ DOMAIN Enemies = {"Wolf"}

\* the step is an apply_damage call that removes its target from the enemies
Kills ==
    /\ last'.op = "apply_damage"
    /\ last'.target \in DOMAIN Enemies
    /\ last'.target \notin DOMAIN Enemies'

\* the step is an apply_damage call on an enemy of the active combat that keeps it
Spares ==
    /\ last'.op = "apply_damage"
    /\ Active
    /\ Lower(last'.target) # "player"
    /\ last'.target \in DOMAIN Enemies
    /\ last'.target \in DOMAIN Enemies'

\* C8: when apply_damage kills the last enemy, the persisted combat is inactive with
\* no enemies; when it kills an enemy that is not the last, or the enemy survives,
\* combat stays active.
C8_AutomaticEndOfCombat ==
    [][/\ (Kills /\ DOMAIN Enemies' = {}) => (~Active' /\ last'.ret = "died, combat has ended")
       /\ (Kills /\ DOMAIN Enemies' # {}) => (Active' /\ last'.ret = "died")
       /\ Spares => (Active' /\ last'.ret = "took damage")]_vars

\* C8's case: the only enemy took damage equal to its HP
C8_Witness ==
    /\ last.op = "apply_damage"
    /\ last.target = "Goblin"
    /\ last.damage = MaxHP
    /\ last.saved
    /\ ~Active
    /\ DOMAIN Enemies = {}

\* C9: apply_damage on a target that is not case-insensitively "player", with combat
\* inactive or the target not among the enemies, returns the error string, does not
\* save, and leaves the file so that a load returns what it returned before.
C9_UnknownTargetChangesNothing ==
    [][(/\ last'.op = "apply_damage"
        /\ Lower(last'.target) # "player"
        /\ (~Active \/ last'.target \notin DOMAIN Enemies))
           => (/\ last'.ret = "error: target not found"
               /\ ~last'.raised
               /\ ~last'.saved
               /\ file' = file
               /\ load_state(file') = load_state(file))]_vars

\* C9's case: apply_damage("Goblin", .) was called with combat inactive
C9_Witness ==
    /\ last.op = "apply_damage"
    /\ last.target = "Goblin"
    /\ last.ret = "error: target not found"
    /\ ~Active

\* C10: in every reachable state and for every damage, apply_damage("Player", d) and
\* apply_damage("player", d) leave the same file and end the same way.
C10_PlayerTargetIgnoresCase ==
    \A damage \in Damages :
        apply_damage(file, "Player", damage) = apply_damage(file, "player", damage)

\* C10's case: apply_damage("Player", .) was called while an enemy spelled "Player"
\* was in the active combat
C10_Witness ==
    /\ last.op = "apply_damage"
    /\ last.target = "Player"
    /\ last.saved
    /\ Active
    /\ "Player" \in DOMAIN Enemies

(***************************************************************************)
(* Properties of the store.                                                *)
(***************************************************************************)
\* the file holds a JSON object with all three top-level keys
FileHasAllKeys ==
    /\ file.kind = "json"
    /\ file.doc.j = "object"
    /\ {"player", "combat", "inventory"} \subseteq DOMAIN file.doc.members

\* C3: whatever the file holds, load_state returns without raising, the record it
\* returns has the keys player, combat and inventory, and a file missing any of them
\* yields the default record.
C3_LoadAlwaysReturnsShapedRecord ==
    last.op = "load_state" =>
        /\ ~last.raised
        /\ IsDict(last.value)
        /\ {"player", "combat", "inventory"} \subseteq DOMAIN last.value.d
        /\ ~FileHasAllKeys => (last.value = default_state)

\* the four files of C4: no file, invalid syntax, {}, an object without a player key
FallsBack ==
    \/ file.kind = "absent"
    \/ file.kind = "invalid"
    \/ /\ file.kind = "json"
       /\ file.doc.j = "object"
       /\ "player" \notin DOMAIN file.doc.members

\* C4: load_state returns one and the same default record (player Unknown/Unknown,
\* hp, max_hp and ac 0, at Triboar Trail; combat inactive, round 0, no initiative
\* order, no enemies; empty inventory) when the file does not exist, has invalid
\* syntax, holds {} or holds an object without a player key.
C4_DefaultFallback ==
    last.op = "load_state" /\ FallsBack =>
        /\ ~last.raised
        /\ last.value = default_state
        /\ last.value.d["player"].d =
               [name |-> PyStr("Unknown"), class |-> PyStr("Unknown"), hp |-> PyInt(0),
                max_hp |-> PyInt(0), ac |-> PyInt(0), location |-> PyStr("Triboar Trail")]
        /\ last.value.d["combat"].d =
               [active |-> PyBool(FALSE), round |-> PyInt(0),
                initiative_order |-> PyList(<<>>), enemies |-> PyDict(<<>>)]
        /\ last.value.d["inventory"] = PyList(<<>>)

\* C4's case: the file holds {"foo": 1} and has been loaded
C4_Witness ==
    /\ last.op = "load_state"
    /\ file = Json(json_dump(PyDict([foo |-> PyInt(1)])))

\* C5: save_state(s) followed immediately by load_state() returns a record equal to s,
\* for any well-formed s.
C5_SaveLoadRoundTrip ==
    last.op = "save_state" => load_state(file) = Return(last.arg)

\* C5's case: a record with a running combat and an inventory has been saved
C5_Witness ==
    /\ last.op = "save_state"
    /\ last.arg.d["combat"].d["active"].b
    /\ DOMAIN last.arg.d["combat"].d["enemies"].d = {"Goblin", "Wolf"}
    /\ Len(last.arg.d["inventory"].l) = 2

(***************************************************************************)
(* The tools on any file: the file holds anything at all (it may have been *)
(* edited, deleted or left behind by an earlier version) and one tool is   *)
(* called on it.                                                           *)
(***************************************************************************)
Sheets ==
    {Sheet(name, "Elf", "Fighter", "Sage", max_hp, 16) :
        name \in {"Aria", "Bram"}, max_hp \in {0 - 1, 0, MaxHP}}

AnyInitializePlayer == \E sheet \in Sheets : InitializePlayerWith(sheet)

AnyAddToInventory ==
    \E items \in ItemLists :
        Call("add_to_inventory", PyStrings(items), "", 0,
             add_to_inventory(file, PyStrings(items)))

AnyApplyDamage ==
    \E target \in Targets, damage \in Damages :
        Call("apply_damage", PyNone, target, damage, apply_damage(file, target, damage))

NextAnyFile ==
    \/ AnyInitializePlayer
    \/ AnyAddToInventory
    \/ ReadGamestate
    \/ StartCombat
    \/ AnyApplyDamage
    \/ EndCombat

AnyFileSpec == InitStore /\ [][NextAnyFile]_vars

\* the load returns a record whose player is a record
HasPlayerRecord ==
    /\ ~load_state(file).raised
    /\ IsDict(Loaded)
    /\ "player" \in DOMAIN Loaded.d
    /\ IsDict(Loaded.d["player"])

\* C11: apply_damage on the player (any spelling of "player"), when the loaded
\* player record has no hp field, returns the 'Player HP not initialized' error
\* string, does not raise, does not save, and leaves the file as it was.
C11_PlayerWithoutHP ==
    [][(/\ last'.op = "apply_damage"
        /\ Lower(last'.target) = "player"
        /\ HasPlayerRecord
        /\ "hp" \notin DOMAIN Player.d)
           => (/\ last'.ret = "error: player hp not initialized"
               /\ ~last'.raised
               /\ ~last'.saved
               /\ file' = file)]_vars

\* C11's case: apply_damage("Player", .) was called on a file whose player record
\* has a name and a class and no hp, with a combat running
C11_Witness ==
    /\ last.op = "apply_damage"
    /\ last.target = "Player"
    /\ last.ret = "error: player hp not initialized"
    /\ HasPlayerRecord
    /\ Player = player_without_hp
    /\ "combat" \in DOMAIN Loaded.d
    /\ Combat = an_active_combat

(***************************************************************************)
(* Properties of the tools' effect on the rest of the record.              *)
(***************************************************************************)
\* two dicts have the same keys and agree on every key outside `keys`
SameExcept(new, old, keys) ==
    /\ DOMAIN new = DOMAIN old
    /\ \A k \in (DOMAIN old) \ keys : new[k] = old[k]

\* C12: apply_damage on the player (hp present) saves player.hp = old_hp - damage,
\* below zero when damage exceeds the hp, whether or not a combat is running, and
\* leaves combat, the inventory and every other field of the player as they were.
C12_PlayerDamage ==
    [][(last'.op = "apply_damage" /\ Lower(last'.target) = "player")
           => (/\ last'.saved
               /\ last'.ret = "player took damage"
               /\ Player'.d["hp"] = PyInt(Player.d["hp"].i - last'.damage)
               /\ SameExcept(Player'.d, Player.d, {"hp"})
               /\ SameExcept(Loaded'.d, Loaded.d, {"player"}))]_vars

\* C12's case: damage has taken the initialized player's hp below zero while a
\* combat was running and the inventory held an item
C12_Witness ==
    /\ last.op = "apply_damage"
    /\ last.target = "player"
    /\ last.damage > 0
    /\ Player.d["hp"] = PyInt(0 - 1)
    /\ Player.d["name"] = PyStr("Aria")
    /\ Active
    /\ DOMAIN Enemies # {}
    /\ Inventory # <<>>

\* C13: combat.active turns from false to true only in start_combat, and from true
\* to false only in end_combat or in an apply_damage that removes the last enemy.
C13_ActiveTransitions ==
    [][/\ (~Active /\ Active') => (last'.op = "start_combat")
       /\ (Active /\ ~Active')
              => (\/ last'.op = "end_combat"
                  \/ /\ last'.op = "apply_damage"
                     /\ DOMAIN Enemies = {last'.target}
                     /\ DOMAIN Enemies' = {})]_vars

\* C13's case: start_combat has turned the combat on, with three enemies, so that
\* an apply_damage can kill one without ending it
C13_Witness ==
    /\ last.op = "start_combat"
    /\ Active
    /\ DOMAIN Enemies = {"Goblin", "Wolf", "Player"}
    /\ Inventory # <<>>

\* C14: read_gamestate never changes the file and never saves; when the file is
\* absent it returns the default record and the file is still absent afterwards.
C14_ReadIsPure ==
    [][(last'.op = "read_gamestate")
           => (/\ file' = file
               /\ ~last'.saved
               /\ (file.kind = "absent")
                      => (/\ ~last'.raised
                          /\ last'.value = default_state
                          /\ file'.kind = "absent"))]_vars

\* C14's case: read_gamestate was called with no file there
C14_Witness ==
    /\ last.op = "read_gamestate"
    /\ last.value = default_state
    /\ file = Absent

\* the keys of the player record that initialize_player writes
SheetKeys == {"name", "race", "class", "background", "hp", "max_hp", "ac"}

\* C16: initialize_player(name, race, char_class, background, max_hp, ac) saves a
\* record whose player has those name, race, class, background and ac and has
\* hp = max_hp = the given max_hp, whatever its sign; every other field of the
\* player (location among them) and the rest of the record stay as they were.
C16_InitializePlayer ==
    [][(last'.op = "initialize_player" /\ ~last'.raised)
           => LET given == last'.arg.d IN
              /\ last'.saved
              /\ Player'.d["name"] = given["name"]
              /\ Player'.d["race"] = given["race"]
              /\ Player'.d["class"] = given["char_class"]
              /\ Player'.d["background"] = given["background"]
              /\ Player'.d["ac"] = given["ac"]
              /\ Player'.d["hp"] = given["max_hp"]
              /\ Player'.d["max_hp"] = given["max_hp"]
              /\ DOMAIN Player'.d = (DOMAIN Player.d) \cup SheetKeys
              /\ \A k \in (DOMAIN Player.d) \ SheetKeys : Player'.d[k] = Player.d[k]
              /\ SameExcept(Loaded'.d, Loaded.d, {"player"})]_vars

\* C16's case: a player was initialized with a negative max_hp over a file that
\* held a location, a running combat and an item
C16_Witness ==
    /\ last.op = "initialize_player"
    /\ last.arg = Sheet("Bram", "Elf", "Fighter", "Sage", 0 - 1, 16)
    /\ last.saved
    /\ {"player", "combat", "inventory"} \subseteq DOMAIN Loaded.d
    /\ "location" \in DOMAIN Player.d
    /\ Player.d["hp"] = PyInt(0 - 1)
    /\ Player.d["location"] = PyStr("Triboar Trail")
    /\ Combat = an_active_combat
    /\ Inventory = PyStrings(<<"Rope">>).l

\* C17: start_combat(enemies), whatever the state and also while a combat is
\* running, saves a record with combat.active true and combat.enemies equal to the
\* given mapping, none of the earlier entries left; the player, the inventory
\* and the other fields of combat stay as they were.
C17_StartCombat ==
    [][(last'.op = "start_combat")
           => (/\ last'.saved
               /\ Active'
               /\ Combat'.d["enemies"] = last'.arg
               /\ SameExcept(Combat'.d, Combat.d, {"active", "enemies"})
               /\ SameExcept(Loaded'.d, Loaded.d, {"combat"}))]_vars

\* C17's case: start_combat was given one enemy at zero HP, with a player
\* initialized and an item held
C17_Witness ==
    /\ last.op = "start_combat"
    /\ last.arg = PyInts([Wolf |-> 0])
    /\ Enemies = [Wolf |-> PyInt(0)]
    /\ Player.d["name"] = PyStr("Aria")
    /\ Inventory # <<>>

\* C20: a call of apply_damage whose target is case-insensitively "player" leaves
\* combat as it was; and an enemy whose name is case-insensitively "player" is
\* removed or has its HP changed only by end_combat or start_combat.
C20_PlayerBranchFirst ==
    [][/\ (last'.op = "apply_damage" /\ Lower(last'.target) = "player")
              => (Combat' = Combat)
       /\ \A n \in DOMAIN Enemies :
              (/\ Lower(n) = "player"
               /\ (n \notin DOMAIN Enemies' \/ Enemies'[n] # Enemies[n]))
                  => (last'.op \in {"end_combat", "start_combat"})]_vars

\* C20's case: apply_damage("Player", MaxHP) was called with an enemy "Player" at
\* MaxHP in the running combat, and the enemy is still there at MaxHP
C20_Witness ==
    /\ last.op = "apply_damage"
    /\ last.target = "Player"
    /\ last.damage = MaxHP
    /\ last.saved
    /\ Active
    /\ "Player" \in DOMAIN Enemies
    /\ Enemies["Player"] = PyInt(MaxHP)

(***************************************************************************)
(* Calls side by side.  A tool is a load of the file, a change of the      *)
(* loaded record in memory and a save of that record; nothing holds the    *)
(* file between the load and the save, so when two calls run at once their *)
(* loads and saves interleave in any order.                                *)
(***************************************************************************)
\* the tool named by a call, applied to a file
RunTool(call, f) ==
    CASE call.op = "initialize_player" ->
             initialize_player(f, call.arg.d["name"].s, call.arg.d["race"].s,
                               call.arg.d["char_class"].s, call.arg.d["background"].s,
                               call.arg.d["max_hp"].i, call.arg.d["ac"].i)
      [] call.op = "add_to_inventory" -> add_to_inventory(f, call.arg)
      [] call.op = "read_gamestate" -> read_gamestate(f)
      [] call.op = "start_combat" -> start_combat(f, call.arg)
      [] call.op = "apply_damage" -> apply_damage(f, call.target, call.damage)
      [] call.op = "end_combat" -> end_combat(f)

Callers == {"a", "b"}

\* a caller before its call: pc is where the call stands (waiting, loaded, done),
\* seen the file content it loaded, loaded_at and saved_at the number of loads and
\* saves that came before its own
Waiting ==
    [op |-> "idle", arg |-> PyNone, target |-> "", damage |-> 0, saved |-> FALSE,
     pc |-> "waiting", seen |-> Absent, loaded_at |-> 0, saved_at |-> 0]

\* the calls of the five tools that save
MutatingCalls ==
    {[op |-> "initialize_player", arg |-> sheet, target |-> "", damage |-> 0] :
        sheet \in {Sheet("Aria", "Elf", "Fighter", "Sage", MaxHP, 16)}}
    \cup {[op |-> "add_to_inventory", arg |-> PyStrings(items), target |-> "", damage |-> 0] :
            items \in ItemLists}
    \cup {[op |-> "start_combat", arg |-> PyInts(enemies), target |-> "", damage |-> 0] :
            enemies \in Encounters}
    \cup {[op |-> "apply_damage", arg |-> PyNone, target |-> target, damage |-> damage] :
            target \in Targets, damage \in Damages}
    \cup {[op |-> "end_combat", arg |-> PyNone, target |-> "", damage |-> 0]}

\* the loads and saves done so far
Clock ==
    Cardinality({p \in Callers : running[p].pc # "waiting"})
        + Cardinality({p \in Callers : running[p].pc = "done"})

\* a game under way: the player initialized, a combat running, an item held
a_game_under_way ==
    PyDict([player |-> an_initialized_player(MaxHP), combat |-> an_active_combat,
            inventory |-> PyStrings(<<"Rope">>)])

\* the outcome of a call at its save if it loaded afresh then (what a lock held from
\* load to save would give)
OutcomeOf_fresh_load(call, f) == RunTool(call, f)

\* the outcome of a call at its save, the file holding f by then: the tool has
\* worked on the record it loaded
OutcomeOf(call, f) == RunTool(call, call.seen)

\* a caller starts a call: _load_state()
CallerLoads ==
    \E p \in Callers, call \in MutatingCalls :
        /\ running[p].pc = "waiting"
        /\ running' = [running EXCEPT ![p] =
               [op |-> call.op, arg |-> call.arg, target |-> call.target,
                damage |-> call.damage, saved |-> FALSE, pc |-> "loaded",
                seen |-> file, loaded_at |-> Clock, saved_at |-> 0]]
        /\ UNCHANGED <<file, last>>

\* the call changes its record and saves it (or returns without a save)
CallerSaves ==
    \E p \in Callers :
        /\ running[p].pc = "loaded"
        /\ LET out == OutcomeOf(running[p], file) IN
           /\ file' = IF out.saved THEN out.file ELSE file
           /\ running' = [running EXCEPT ![p].saved = out.saved, ![p].pc = "done",
                                         ![p].saved_at = Clock]
        /\ UNCHANGED last

InitConcurrent ==
    /\ file \in {Bootstrap(Absent), save_state(a_game_under_way)}
    /\ last = Idle
    /\ running = [p \in Callers |-> Waiting]

NextConcurrent ==
    \/ CallerLoads
    \/ CallerSaves

ConcurrentSpec == InitConcurrent /\ [][NextConcurrent]_vars

\* both calls are done and saved, first p then q, and each had loaded before
\* either saved
LostUpdate(p, q) ==
    /\ running[p].pc = "done"
    /\ running[q].pc = "done"
    /\ running[p].saved
    /\ running[q].saved
    /\ running[p].saved_at < running[q].saved_at
    /\ running[q].loaded_at < running[p].saved_at

\* C15: when two mutating calls both load before either saves, the file holds in
\* the end what the later saver alone makes of the record both loaded: its update
\* is there and the earlier saver's is not.
C15_LastWriteWins ==
    \A p, q \in Callers :
        LostUpdate(p, q) =>
            /\ running[p].seen = running[q].seen
            /\ file = RunTool(running[q], running[q].seen).file

\* C15's case: add_to_inventory(["Shortbow"]) and start_combat({"Wolf": MaxHP}) both
\* loaded the game under way, the first saved, then the second: the combat is the
\* new one and the Shortbow is not in the inventory
C15_Witness ==
    /\ LostUpdate("a", "b")
    /\ running["a"].op = "add_to_inventory"
    /\ running["a"].arg = PyStrings(<<"Shortbow">>)
    /\ running["b"].op = "start_combat"
    /\ running["b"].arg = PyInts([Wolf |-> MaxHP])
    /\ Inventory = PyStrings(<<"Rope">>).l
    /\ Enemies = [Wolf |-> PyInt(MaxHP)]

(***************************************************************************)
(* The file lost or damaged between calls: deleted, or left cut short by a *)
(* crash in the middle of a save (open(..., 'w') empties it first), so     *)
(* that it is no longer JSON.                                              *)
(***************************************************************************)
Corrupted == {Absent, Invalid}

FileIsLost ==
    /\ last = Idle
    /\ file' \in Corrupted
    /\ UNCHANGED <<last, running>>

NextWithLoss ==
    \/ Next
    \/ FileIsLost

LossSpec == Init /\ [][NextWithLoss]_vars

\* C18: a call of any tool that finds the file absent or unparseable returns
\* without raising and does what it does on the default record: it returns the
\* same, and if it saves, the file holds the default record with that call's change
\* alone, nothing of what was there before; if it does not save, the file stays.
C18_LostFileMeansDefault ==
    [][(last = Idle /\ last' # Idle /\ file \in Corrupted)
           => LET fresh == RunTool(last', save_state(default_state)) IN
              /\ ~last'.raised
              /\ last'.ret = fresh.ret.kind
              /\ last'.value = fresh.value
              /\ last'.saved = fresh.saved
              /\ last'.saved => (file' = fresh.file)
              /\ ~last'.saved => (file' = file)]_vars

\* C18's case: with the file unparseable, apply_damage("Goblin", .) has returned
\* its error (the default record has no combat), and the file is as it was
C18_Witness ==
    /\ file = Invalid
    /\ last.op = "apply_damage"
    /\ last.target = "Goblin"
    /\ last.ret = "error: target not found"
    /\ ~last.raised

(***************************************************************************)
(* A fight to the end: a combat is running and the agent calls nothing but *)
(* apply_damage, with a damage of at least 1, on enemies still there.      *)
(***************************************************************************)
\* enemy names that are not case-insensitively "player"
Fighters == {"Goblin", "Wolf"}

\* a damage of at least 1
Hits == {damage \in Damages : damage >= 1}

\* the files right after start_combat was given at least one fighter, whatever the
\* player and the inventory
FightFiles ==
    {start_combat(save_state(state), PyInts(enemies)).file :
        state \in {w \in WellFormedStates :
                      /\ w.d["combat"] = default_combat
                      /\ w.d["inventory"] \in {PyList(<<>>), PyStrings(<<"Rope">>)}},
        enemies \in UNION {[S -> 0..MaxHP] : S \in (SUBSET Fighters) \ {{}}}}

Hit ==
    /\ Active
    /\ \E target \in DOMAIN Enemies, damage \in Hits :
           Call("apply_damage", PyNone, target, damage, apply_damage(file, target, damage))

InitFight ==
    /\ file \in FightFiles
    /\ last = Idle
    /\ running = NoCallers

NextFight ==
    \/ Hit
    \/ TakeResult

\* the agent keeps calling while an enemy is left
FightSpec == InitFight /\ [][NextFight]_vars /\ WF_vars(Hit) /\ WF_vars(TakeResult)

\* the combat a file holds is over: inactive and without enemies
Ended(f) ==
    LET combat == load_state(f).value.d["combat"] IN
    ~combat.d["active"].b /\ DOMAIN combat.d["enemies"].d = {}

Max(S) == CHOOSE x \in S : \A y \in S : y <= x

\* the longest run of hits on the enemies of file f before its combat is over,
\* counted up to `most`
RECURSIVE CallsToEnd(_, _)
CallsToEnd(f, most) ==
    IF Ended(f) \/ most = 0 THEN 0
    ELSE 1 + Max({CallsToEnd(apply_damage(f, target, damage).file, most - 1) :
                     target \in DOMAIN load_state(f).value.d["combat"].d["enemies"].d,
                     damage \in Hits})

\* the sum of the enemies' HPs, each counted as hp or as max(least, hp)
RECURSIVE SumOfHPs(_, _)
SumOfHPs(enemies, least) ==
    IF DOMAIN enemies = {} THEN 0
    ELSE LET n == CHOOSE n \in DOMAIN enemies : TRUE
             hp == enemies[n].i
         IN  (IF hp < least THEN least ELSE hp)
                 + SumOfHPs([k \in (DOMAIN enemies) \ {n} |-> enemies[k]], least)

InFight == Active /\ DOMAIN Enemies # {}

\* C19 as claimed: from a running combat with enemies, no run of hits is longer than
\* the sum of the remaining HPs before the combat is over.
C19_EndsWithinSumOfHPs ==
    InFight =>
        LET sum == SumOfHPs(Enemies, 0) IN CallsToEnd(file, sum + 1) <= sum

\* C19 as amended: no run of hits is longer than the sum over the remaining enemies
\* of max(1, HP) (an enemy at zero HP still takes a call to remove), and the
\* combat does come to be inactive and without enemies.
C19_EndsWithinOneCallPerHP ==
    /\ [](InFight =>
            LET sum == SumOfHPs(Enemies, 1) IN CallsToEnd(file, sum + 1) <= sum)
    /\ <>(~Active /\ DOMAIN Enemies = {})

\* C19's case: the last of the fight's hits, of damage 1, has ended the combat
C19_Witness ==
    /\ last.op = "apply_damage"
    /\ last.target = "Wolf"
    /\ last.damage = 1
    /\ last.ret = "died, combat has ended"
    /\ ~Active
    /\ DOMAIN Enemies = {}

====
